---------------------------- MODULE Spec2Model ----------------------------
(***************************************************************************)
(* The format-sniffing decoder facade of src/decoder/mod.rs.               *)
(*                                                                         *)
(* Decoder::new hands an owned byte source to the probes of the formats    *)
(* compiled in (cargo features "wav", "flac", "vorbis"), in the textual    *)
(* order of the function body, and wraps the first decoder a probe opens.  *)
(* The Iterator and Source impls forward every call to the wrapped         *)
(* decoder.  With no format compiled in, Decoder is a PhantomData          *)
(* placeholder with constant answers.                                      *)
(*                                                                         *)
(* The format modules (wav.rs, flac.rs, vorbis.rs) are collaborators: a    *)
(* probe's verdict is a function of the source's content, a rejecting      *)
(* probe hands the source back with its read position restored or not, and *)
(* an opened decoder yields the source's samples one by one.               *)
(***************************************************************************)
EXTENDS Integers, Sequences, FiniteSets, TLC

VARIABLES
    features,   \* the formats compiled in (#[cfg(feature = ...)])
    restoring,  \* the probes that rewind the source when they reject
    source,     \* the byte source the caller passes to Decoder::new
    pc,         \* "new": inside Decoder::new; "returned": new has returned
    at,         \* inside new: index in ProbeOrder of the block about to run
    data,       \* inside new: the local `data`
    probed,     \* log of the probe calls made by the current call of new
    result,     \* what new returned: "pending", "Ok" or "UnrecognizedFormat"
    decoder,    \* the Decoder value the caller holds
    made,       \* the Decoder value as new returned it
    ret,        \* the last value a method of Decoder returned
    asked,      \* number of Decoder::next calls on the current Decoder
    heard,      \* the samples Decoder::next has returned to the caller
    runs,       \* number of calls of new on this source so far
    prev        \* the outcome of the previous call of new on this source

vars == << features, restoring, source, pc, at, data, probed, result,
           decoder, made, ret, asked, heard, runs, prev >>

-----------------------------------------------------------------------------
(* Bounds *)

MaxSamples == 2     \* longest sample stream a source holds
MaxCalls == 3       \* most next calls made on one inner decoder
MaxStart == 1       \* largest read position a source is passed in at
MaxRuns == 2        \* most calls of new on one source

-----------------------------------------------------------------------------
(* Values *)

Formats == {"wav", "flac", "vorbis"}

None == [some |-> FALSE, val |-> 0]
Some(v) == [some |-> TRUE, val |-> v]

\* the two stream headers a source may carry (channels, samples rate)
Headers == << [channels |-> 2, rate |-> 44100], [channels |-> 1, rate |-> 8000] >>

\* the i-th decoded sample of a stream, a signed 16-bit value
SampleAt(i) == ((i * 32767) % 65536) - 32768

NoData == [accepts |-> {}, pos |-> 0, n |-> 0, chained |-> FALSE]

Sources ==
    [ accepts : SUBSET Formats,    \* the formats whose probe recognises the bytes
      pos     : 0 .. MaxStart,     \* the read position
      n       : 0 .. MaxSamples,   \* number of samples the bytes encode
      chained : BOOLEAN ]          \* a second header follows the first sample

NoInner == [data |-> NoData, taken |-> 0, calls |-> 0, last |-> None]

NoDecoder   == [variant |-> "none", inner |-> NoInner]
Placeholder == [variant |-> "PhantomData", inner |-> NoInner]

NoRet == [op |-> "none", val |-> None]

-----------------------------------------------------------------------------
(* The format modules: the probe and the decoder each of them provides *)

\* a decoder opened on the source d
Open(d) == [data |-> d, taken |-> 0, calls |-> 0, last |-> None]

\* XxxDecoder::new(d): Ok(decoder), or Err(d) handing the source back
Probe(f, d) ==
    IF f \in d.accepts
    THEN [ok |-> TRUE, decoder |-> Open(d), data |-> NoData]
    ELSE [ok |-> FALSE, decoder |-> NoInner,
          data |-> IF f \in restoring THEN d ELSE [d EXCEPT !.pos = @ + 1]]

\* the inner decoder's Iterator::next
InnerNext(s) ==
    LET v == IF s.taken < s.data.n THEN Some(SampleAt(s.taken + 1)) ELSE None
    IN  [state |-> [s EXCEPT !.taken = IF v.some THEN @ + 1 ELSE @,
                             !.calls = @ + 1,
                             !.last = v],
         ret |-> v]

Remaining(s) == s.data.n - s.taken

\* the header in force at the inner decoder's current position
InnerHeader(s) ==
    IF s.data.chained /\ s.taken >= 1 THEN Headers[2] ELSE Headers[1]

InnerSizeHint(s) == [lo |-> Remaining(s), hi |-> Some(Remaining(s))]

InnerCurrentFrameLen(s) ==
    IF ~ s.data.chained THEN None
    ELSE IF s.taken = 0 /\ s.data.n >= 1 THEN Some(1)
    ELSE Some(Remaining(s))

InnerChannels(s) == InnerHeader(s).channels

InnerSamplesRate(s) == InnerHeader(s).rate

InnerTotalDuration(s) == IF s.data.chained THEN None ELSE Some(s.data.n)

-----------------------------------------------------------------------------
(* Decoder::new *)

\* a probe order a reordering of the blocks would give
ProbeOrderAsEnum == << "wav", "vorbis", "flac" >>

\* the order of the probe blocks in the body of new
ProbeOrder == << "wav", "flac", "vorbis" >>

\* the block after the last probe block: Err(UnrecognizedFormat)
PastProbes == Len(ProbeOrder) + 1

\* the first block at or after index k that is compiled in
FirstFrom(k) ==
    LET live == { j \in k .. Len(ProbeOrder) : ProbeOrder[j] \in features }
    IN  IF live = {} THEN PastProbes
        ELSE CHOOSE j \in live : \A i \in live : j <= i

\* new entered after the block at which the previous call stopped
EntryRotated == FirstFrom(IF at \in 1 .. Len(ProbeOrder) - 1 THEN at + 1 ELSE 1)

\* the block a call of new starts at
Entry == FirstFrom(1)

\* the dispatcher seeking the rejected source to offset 0 before passing it on
HandoffRewound(d) == [d EXCEPT !.pos = 0]

\* `Err(data) => data`: the source handed back is rebound, untouched
Handoff(d) == d

\* the arms wrapping the Flac and Vorbis decoders exchanged
VariantSwapped(f) ==
    CASE f = "wav" -> "Wav" [] f = "flac" -> "Vorbis" [] f = "vorbis" -> "Flac"

\* the DecoderImpl variant new wraps the decoder of probe f in
Variant(f) ==
    CASE f = "wav" -> "Wav" [] f = "flac" -> "Flac" [] f = "vorbis" -> "Vorbis"

Wrap(f, inner) == [variant |-> Variant(f), inner |-> inner]

\* the block a rejected probe at index k retries: itself, once
AfterRejectRetry(k) ==
    IF Len(SelectSeq(probed, LAMBDA p : p.fmt = ProbeOrder[k])) = 0
    THEN k ELSE FirstFrom(k + 1)

\* the block control falls to when the probe at index k rejects
AfterReject(k) == FirstFrom(k + 1)

\* one `let data = match XxxDecoder::new(data) { ... }` block
TryProbe(f) ==
    /\ pc = "new"
    /\ at \in 1 .. Len(ProbeOrder)
    /\ ProbeOrder[at] = f
    /\ LET r == Probe(f, data)
       IN  /\ probed' = Append(probed, [fmt |-> f, given |-> data,
                                        ok |-> r.ok, back |-> r.data])
           /\ IF r.ok
              THEN /\ decoder' = Wrap(f, r.decoder)
                   /\ made' = decoder'
                   /\ result' = "Ok"
                   /\ pc' = "returned"
                   /\ data' = NoData
                   /\ at' = at
              ELSE /\ data' = Handoff(r.data)
                   /\ at' = AfterReject(at)
                   /\ UNCHANGED << decoder, made, result, pc >>
    /\ UNCHANGED << features, restoring, source, ret, asked, heard, runs, prev >>

NewWav == TryProbe("wav")

NewFlac == TryProbe("flac")

NewVorbis == TryProbe("vorbis")

\* the tail expression Err(DecoderError::UnrecognizedFormat)
NewFail ==
    /\ pc = "new"
    /\ at = PastProbes
    /\ result' = "UnrecognizedFormat"
    /\ pc' = "returned"
    /\ data' = NoData
    /\ UNCHANGED << features, restoring, source, at, probed, decoder, made,
                    ret, asked, heard, runs, prev >>

\* what the current call of new returned
Outcome == IF result = "Ok" THEN made.variant ELSE result

\* the caller drops what it holds and calls new on the same bytes again
Reopen ==
    /\ pc # "new"
    /\ runs < MaxRuns
    /\ runs' = runs + 1
    /\ prev' = IF result = "pending" THEN "none" ELSE Outcome
    /\ pc' = "new"
    /\ at' = Entry
    /\ data' = source
    /\ probed' = << >>
    /\ result' = "pending"
    /\ decoder' = NoDecoder
    /\ made' = NoDecoder
    /\ ret' = NoRet
    /\ asked' = 0
    /\ heard' = << >>
    /\ UNCHANGED << features, restoring, source >>

-----------------------------------------------------------------------------
(* impl Iterator for Decoder, impl Source for Decoder *)

\* the build with no format compiled in
NoFormats == features = {}

\* next reading one sample ahead and returning the second
next_skipping(d) ==
    IF NoFormats THEN [dec |-> d, ret |-> None]
    ELSE LET r1 == InnerNext(d.inner)
             r2 == InnerNext(r1.state)
         IN  [dec |-> [d EXCEPT !.inner = r2.state], ret |-> r2.ret]

\* next re-wrapping an exhausted decoder as the first variant
next_retagging(d) ==
    IF NoFormats THEN [dec |-> d, ret |-> None]
    ELSE LET r == InnerNext(d.inner)
         IN  [dec |-> [variant |-> IF r.ret.some THEN d.variant ELSE "Wav",
                       inner |-> r.state],
              ret |-> r.ret]

\* Iterator::next: the Decoder after the call and the value returned
next(d) ==
    IF NoFormats THEN [dec |-> d, ret |-> None]
    ELSE LET r == CASE d.variant = "Wav" -> InnerNext(d.inner)
                    [] d.variant = "Vorbis" -> InnerNext(d.inner)
                    [] d.variant = "Flac" -> InnerNext(d.inner)
         IN  [dec |-> [d EXCEPT !.inner = r.state], ret |-> r.ret]

\* size_hint answered from the decoder as new returned it
size_hint_cached(d) == InnerSizeHint(made.inner)

\* Iterator::size_hint (the no-format impl keeps the trait's default)
size_hint(d) ==
    IF NoFormats THEN [lo |-> 0, hi |-> None]
    ELSE CASE d.variant = "Wav" -> InnerSizeHint(d.inner)
           [] d.variant = "Vorbis" -> InnerSizeHint(d.inner)
           [] d.variant = "Flac" -> InnerSizeHint(d.inner)

current_frame_len(d) ==
    IF NoFormats THEN Some(0)
    ELSE CASE d.variant = "Wav" -> InnerCurrentFrameLen(d.inner)
           [] d.variant = "Vorbis" -> InnerCurrentFrameLen(d.inner)
           [] d.variant = "Flac" -> InnerCurrentFrameLen(d.inner)

\* channels with the placeholder answering 1, as its samples_rate does
channels_one(d) == IF NoFormats THEN 1 ELSE InnerChannels(d.inner)

channels(d) ==
    IF NoFormats THEN 0
    ELSE CASE d.variant = "Wav" -> InnerChannels(d.inner)
           [] d.variant = "Vorbis" -> InnerChannels(d.inner)
           [] d.variant = "Flac" -> InnerChannels(d.inner)

\* samples_rate with the placeholder answering 0, as its channels does
samples_rate_zero(d) == IF NoFormats THEN 0 ELSE InnerSamplesRate(d.inner)

samples_rate(d) ==
    IF NoFormats THEN 1
    ELSE CASE d.variant = "Wav" -> InnerSamplesRate(d.inner)
           [] d.variant = "Vorbis" -> InnerSamplesRate(d.inner)
           [] d.variant = "Flac" -> InnerSamplesRate(d.inner)

total_duration(d) ==
    IF NoFormats THEN Some(0)
    ELSE CASE d.variant = "Wav" -> InnerTotalDuration(d.inner)
           [] d.variant = "Vorbis" -> InnerTotalDuration(d.inner)
           [] d.variant = "Flac" -> InnerTotalDuration(d.inner)

\* the caller holds a Decoder and is not inside new
Holding == pc # "new" /\ decoder.variant # "none"

CallNext ==
    /\ Holding
    /\ asked < MaxCalls
    /\ LET r == next(decoder)
       IN  /\ decoder' = r.dec
           /\ ret' = [op |-> "next", val |-> r.ret]
           /\ heard' = IF r.ret.some THEN Append(heard, r.ret.val) ELSE heard
    /\ asked' = asked + 1
    /\ UNCHANGED << features, restoring, source, pc, at, data, probed, result,
                    made, runs, prev >>

\* a call of a `&self` method: only the returned value is new
Query(op, v) ==
    /\ Holding
    /\ ret' = [op |-> op, val |-> v]
    /\ UNCHANGED << features, restoring, source, pc, at, data, probed, result,
                    decoder, made, asked, heard, runs, prev >>

CallSizeHint == Query("size_hint", size_hint(decoder))

CallCurrentFrameLen == Query("current_frame_len", current_frame_len(decoder))

CallChannels == Query("channels", channels(decoder))

CallSamplesRate == Query("samples_rate", samples_rate(decoder))

CallTotalDuration == Query("total_duration", total_duration(decoder))

-----------------------------------------------------------------------------
(* Specification *)

\* the caller is about to run Decoder::new(source)
InitNew ==
    /\ pc = "new"
    /\ at = FirstFrom(1)
    /\ data = source
    /\ decoder = NoDecoder
    /\ made = NoDecoder
    /\ runs = 1

\* the no-format build: a Decoder(PhantomData) value, which new never returns,
\* is the receiver of the placeholder impls
InitPlaceholder ==
    /\ NoFormats
    /\ pc = "held"
    /\ at = PastProbes
    /\ data = NoData
    /\ decoder = Placeholder
    /\ made = Placeholder
    /\ runs = 0

Init ==
    /\ features \in SUBSET Formats
    /\ restoring \in SUBSET Formats
    /\ source \in Sources
    /\ probed = << >>
    /\ result = "pending"
    /\ ret = NoRet
    /\ asked = 0
    /\ heard = << >>
    /\ prev = "none"
    /\ (InitNew \/ InitPlaceholder)

Next ==
    \/ NewWav
    \/ NewFlac
    \/ NewVorbis
    \/ NewFail
    \/ Reopen
    \/ CallNext
    \/ CallSizeHint
    \/ CallCurrentFrameLen
    \/ CallChannels
    \/ CallSamplesRate
    \/ CallTotalDuration

Spec == Init /\ [][Next]_vars

-----------------------------------------------------------------------------
(* Properties *)

\* the priority order and the variant of each format, as the properties name them
Rank(f) == CASE f = "wav" -> 1 [] f = "flac" -> 2 [] f = "vorbis" -> 3

VariantOf(f) ==
    CASE f = "wav" -> "Wav" [] f = "flac" -> "Flac" [] f = "vorbis" -> "Vorbis"

\* the compiled-in formats whose probe accepts the source passed to new
Candidates == features \cap source.accepts

Earliest(S) == CHOOSE f \in S : \A g \in S : Rank(f) <= Rank(g)

\* number of calls of probe f the current call of new has made
Invoked(f) == Cardinality({ i \in 1 .. Len(probed) : probed[i].fmt = f })

Returned == pc = "returned"

\* C1: when two or more compiled-in probes accept the source, new returns Ok
\* with the variant of the accepting probe earliest in the order WAV, FLAC,
\* Vorbis, whatever the set of compiled-in formats.
C1_EarliestProbeWins ==
    (Returned /\ Cardinality(Candidates) >= 2)
        => /\ result = "Ok"
           /\ made.variant = VariantOf(Earliest(Candidates))

\* C1 witness: FLAC and Vorbis both accept, WAV was tried first and rejected,
\* and the Decoder is Flac.
C1_Witness ==
    /\ Returned
    /\ features = Formats
    /\ source.accepts = {"flac", "vorbis"}
    /\ made.variant = "Flac"

\* C2: new returns UnrecognizedFormat if and only if every compiled-in probe
\* rejected the source; then each compiled-in probe was called exactly once,
\* no other probe was called, and no Decoder exists.
C2_ErrIffAllReject ==
    Returned =>
        /\ (result = "UnrecognizedFormat") <=> (Candidates = {})
        /\ (result = "UnrecognizedFormat") <=>
               /\ \A i \in 1 .. Len(probed) : ~ probed[i].ok
               /\ \A f \in features : Invoked(f) >= 1
        /\ result = "UnrecognizedFormat" =>
               /\ \A f \in features : Invoked(f) = 1
               /\ \A f \in Formats \ features : Invoked(f) = 0
               /\ decoder = NoDecoder
               /\ made = NoDecoder

\* C2 witness: all three probes compiled in, each rejected once, new failed.
C2_Witness ==
    /\ Returned
    /\ result = "UnrecognizedFormat"
    /\ features = Formats
    /\ Len(probed) = 3

\* C3: a probe that accepts is the last probe called: new has returned Ok
\* with the variant of that probe.
C3_AcceptReturnsAtOnce ==
    \A i \in 1 .. Len(probed) :
        probed[i].ok =>
            /\ i = Len(probed)
            /\ Returned
            /\ result = "Ok"
            /\ made.variant = VariantOf(probed[i].fmt)
            /\ made.inner = Open(probed[i].given)

\* C3 witness: FLAC accepted a source Vorbis would accept too; the Vorbis
\* probe, compiled in, was not called.
C3_Witness ==
    /\ Len(probed) = 2
    /\ probed[2].ok
    /\ probed[2].fmt = "flac"
    /\ "vorbis" \in Candidates
    /\ Invoked("vorbis") = 0
    /\ made.variant = "Flac"

\* C4: the Decoder the caller holds has the variant new selected, after any
\* calls of next and of the queries.
C4_VariantFixed ==
    Holding => decoder.variant = made.variant

\* C4 witness: a Vorbis Decoder run past its end and then queried.
C4_Witness ==
    /\ Holding
    /\ made.variant = "Vorbis"
    /\ asked >= 3
    /\ decoder.inner.taken = decoder.inner.data.n
    /\ ret.op = "channels"

\* the samples an inner decoder has yielded so far
Yielded(s) == [i \in 1 .. s.taken |-> SampleAt(i)]

\* C5: every call of next makes one call of the inner decoder's next and
\* returns its result: the numbers of calls agree, the last value returned
\* is the inner decoder's last, and the samples heard are those yielded.
C5_NextDelegatesOnce ==
    (Holding /\ ~ NoFormats) =>
        /\ decoder.inner.calls = asked
        /\ heard = Yielded(decoder.inner)
        /\ ret.op = "next" => ret.val = decoder.inner.last

\* C5 witness: two samples heard, then None from the exhausted decoder.
C5_Witness ==
    /\ Holding
    /\ ~ NoFormats
    /\ Len(heard) = 2
    /\ asked = 3
    /\ ret = [op |-> "next", val |-> None]

\* C6: a query returns what the inner decoder reports at the moment of the
\* call.
C6_QueriesUncached ==
    (Holding /\ ~ NoFormats) =>
        /\ ret.op = "size_hint" => ret.val = InnerSizeHint(decoder.inner)
        /\ ret.op = "current_frame_len" =>
               ret.val = InnerCurrentFrameLen(decoder.inner)
        /\ ret.op = "channels" => ret.val = InnerChannels(decoder.inner)
        /\ ret.op = "samples_rate" => ret.val = InnerSamplesRate(decoder.inner)
        /\ ret.op = "total_duration" =>
               ret.val = InnerTotalDuration(decoder.inner)

\* C6 witness: size_hint called after a sample was taken, returning a value
\* other than the one at construction.
C6_Witness ==
    /\ Holding
    /\ ~ NoFormats
    /\ asked >= 1
    /\ ret.op = "size_hint"
    /\ ret.val # InnerSizeHint(made.inner)

\* an absent or zero optional count
Empty(o) == ~ o.some \/ o.val = 0

C10_SourceHandedOn ==
    /\ \A i \in 1 .. Len(probed) :
           probed[i].given = IF i = 1 THEN source ELSE probed[i - 1].back
    /\ (pc = "new" /\ Len(probed) >= 1) => data = probed[Len(probed)].back
    /\ (features \subseteq restoring) =>
           \A i \in 1 .. Len(probed) : probed[i].given.pos = source.pos

\* C10 witness: three restoring probes, each started at position 1.
C10_Witness ==
    /\ Len(probed) = 3
    /\ features \subseteq restoring
    /\ source.pos = 1
    /\ probed[3].given.pos = 1

=============================================================================
